---- MODULE Spec2Model ----
(***************************************************************************)
(* A model of src/pubmed_llm_fetcher.py: PubMedFetcher.run and the methods *)
(* it calls (search_pubmed, fetch_articles, process_and_batch_articles,    *)
(* _save_batch, save_summary, print_summary).                              *)
(*                                                                         *)
(* Text is modelled as the sequence of its whitespace-delimited words, so  *)
(* "" is <<>> and str.split() is the identity on that sequence.  The       *)
(* tiktoken encoder is external: every fetched record carries `enc`, the   *)
(* number of tokens the encoder yields for its combined title + abstract.  *)
(* The remote source (Entrez) is the environment: what esearch and efetch  *)
(* return, or whether they raise, is chosen nondeterministically.          *)
(***************************************************************************)
EXTENDS Integers, Sequences, FiniteSets, TLC

\* fetch_articles: batch_size = 50
batch_size == 50

\* Largest token count the encoder reports for one record.
MaxTok == 3
\* Largest configured token_limit.
MaxLimit == 3
\* Most records the remote source returns over one run.
MaxArticles == 3

VARIABLES
    token_limit,            \* self.token_limit
    pc,                     \* position of run()
    exit_log,               \* the "... Exiting." line run() logged, or ""
    pmid_count,             \* len(pmid_list)
    i,                      \* fetch_articles: loop variable i
    recs_left,              \* fetch_articles: records of the open response not yet visited
    requests,               \* log: number of efetch calls made
    errors,                 \* log: number of "ERROR fetching batch" lines
    warnings,               \* log: number of "WARNING: ..." lines
    articles,               \* the list fetch_articles builds and the packer walks
    skipped_articles,       \* self.skipped_articles
    total_articles,         \* self.total_articles
    total_words,            \* self.total_words
    total_tokens,           \* self.total_tokens
    batches,                \* self.batches
    idx,                    \* process_and_batch_articles: articles visited so far
    current_batch,          \* process_and_batch_articles: current_batch
    current_batch_tokens,   \* process_and_batch_articles: current_batch_tokens
    batch_number,           \* process_and_batch_articles: batch_number
    saved,                  \* the pubmed_batch_<n>.txt writes, in write order
    summary                 \* the summary.txt writes, in write order

vars == <<token_limit, pc, exit_log, pmid_count, i, recs_left, requests, errors,
          warnings, articles, skipped_articles, total_articles, total_words,
          total_tokens, batches, idx, current_batch, current_batch_tokens,
          batch_number, saved, summary>>

fetchVars == <<pmid_count, i, recs_left, requests, errors, warnings, skipped_articles>>
packVars == <<total_articles, total_words, total_tokens, batches, idx, current_batch,
              current_batch_tokens, batch_number, saved>>

Min(a, b) == IF a < b THEN a ELSE b

(***************************************************************************)
(* Inputs                                                                  *)
(***************************************************************************)

\* --token-limit is any int (argparse type=int); __init__ stores it unchecked.
TokenLimits == (0 - 1) .. MaxLimit

\* Lengths of the IdList esearch returns: none, one identifier, exactly one
\* full chunk, one full chunk and one more identifier.
PmidListLens == {0, 1, batch_size, batch_size + 1}

\* article_record['MedlineCitation']['Article'].get('Abstract'):
\* absent (None or empty), present without 'AbstractText', or with an
\* AbstractText that is a list of strings or a single string (parts[1]).
AbstractFields ==
    { [present |-> FALSE, has_text |-> FALSE, is_list |-> TRUE, parts |-> <<>>],
      [present |-> TRUE, has_text |-> FALSE, is_list |-> TRUE, parts |-> <<>>],
      [present |-> TRUE, has_text |-> TRUE, is_list |-> TRUE, parts |-> <<>>],
      [present |-> TRUE, has_text |-> TRUE, is_list |-> TRUE, parts |-> << <<>> >>],
      [present |-> TRUE, has_text |-> TRUE, is_list |-> TRUE, parts |-> << <<>>, <<"w">> >>],
      [present |-> TRUE, has_text |-> TRUE, is_list |-> FALSE, parts |-> << <<"w">> >>] }

\* The records of an efetch response: `missing` names a required key the
\* record lacks ("" when none), `enc` is the encoder's count for its text.
FetchedRecords ==
    [missing : {""}, title : {<<"t">>}, Abstract : AbstractFields, enc : 1 .. MaxTok]
    \cup
    [missing : {"PMID", "ArticleTitle"}, title : {<<"t">>},
     Abstract : {[present |-> FALSE, has_text |-> FALSE, is_list |-> TRUE, parts |-> <<>>]},
     enc : {1}]

(***************************************************************************)
(* Pure helpers                                                            *)
(***************************************************************************)

\* " ".join([str(part) for part in abstract_parts])
RECURSIVE Join(_)
Join(parts) == IF parts = <<>> THEN <<>> ELSE Head(parts) \o Join(Tail(parts))

\* fetch_articles: the abstract string of a record that has AbstractText
ExtractAbstract(abstract_data) ==
    IF abstract_data.is_list THEN Join(abstract_data.parts) ELSE abstract_data.parts[1]

\* fetch_articles: if abstract_data and 'AbstractText' in abstract_data
HasAbstract(abstract_data) == abstract_data.present /\ abstract_data.has_text

\* f"{article['title']} {article['abstract']}"
CombinedText(article) == [words |-> article.title \o article.abstract, enc |-> article.enc]

count_tokens(text) == text.enc

count_words(text) == Len(text.words)

\* a run() whose empty-search guard is missing
AfterSearch_NoGuard(n) == "fetch"

\* run(): if not pmid_list: ... return
AfterSearch(n) == IF n = 0 THEN "done" ELSE "fetch"

\* a run() whose empty-fetch guard is missing
AfterFetch_NoGuard(arts) == "pack"

\* run(): if not articles: ... return
AfterFetch(arts) == IF arts = <<>> THEN "done" ELSE "pack"

\* a chunk handler that gives up on the remaining chunks
NextChunkAfterError_Abort(j, n) == n

\* fetch_articles: except Exception ... continue -- the loop goes on to the next chunk
NextChunkAfterError(j, n) == j + batch_size

\* an overflow test that also closes the batch on an exact fit
Overflows_OnTie(cur_tokens, token_count, limit, batch) ==
    cur_tokens + token_count >= limit /\ batch # <<>>

\* if current_batch_tokens + token_count > self.token_limit and current_batch
Overflows(cur_tokens, token_count, limit, batch) ==
    cur_tokens + token_count > limit /\ batch # <<>>

\* a new batch that forgets the record that overflowed
StartBatch_Empty(article) == <<>>

\* current_batch = [article]
StartBatch(article) == <<article>>

\* a new batch whose cost forgets its first record
StartBatchTokens_Zero(token_count) == 0

\* current_batch_tokens = token_count
StartBatchTokens(token_count) == token_count

\* a batch counter that is never advanced
NextBatchNumber_Stuck(n) == n

\* batch_number += 1
NextBatchNumber(n) == n + 1

\* a total that is assigned instead of accumulated
AddTotal_Assign(total, count) == count

\* self.total_words += word_count; self.total_tokens += token_count
AddTotal(total, count) == total + count

\* the dict appended to self.batches
BatchEntry(n, batch, tokens) ==
    [batch_number |-> n, article_count |-> Len(batch), token_count |-> tokens]

\* _save_batch: one write of pubmed_batch_<n>.txt
BatchFile(batch, n, tokens) == [batch_number |-> n, records |-> batch, token_count |-> tokens]

\* save_summary / print_summary: if self.total_articles > 0
AverageGuard(n) == n > 0

(***************************************************************************)
(* Init: the fetcher as __init__ leaves it, run() not yet started          *)
(***************************************************************************)
Init ==
    /\ token_limit \in TokenLimits
    /\ pc = "search"
    /\ exit_log = ""
    /\ pmid_count = 0
    /\ i = 0
    /\ recs_left = 0
    /\ requests = 0
    /\ errors = 0
    /\ warnings = 0
    /\ articles = <<>>
    /\ skipped_articles = 0
    /\ total_articles = 0
    /\ total_words = 0
    /\ total_tokens = 0
    /\ batches = <<>>
    /\ idx = 0
    /\ current_batch = <<>>
    /\ current_batch_tokens = 0
    /\ batch_number = 0
    /\ saved = <<>>
    /\ summary = <<>>

(***************************************************************************)
(* run() step 1: search_pubmed, then the empty-result exit                 *)
(***************************************************************************)
SearchPubmed ==
    /\ pc = "search"
    /\ \E n \in PmidListLens :
        \* n = 0 is also what the except branch returns ([])
        /\ pmid_count' = n
        /\ pc' = AfterSearch(n)
        /\ exit_log' = IF AfterSearch(n) = "done" THEN "No results found. Exiting." ELSE ""
    /\ UNCHANGED <<token_limit, i, recs_left, requests, errors, warnings, articles,
                   skipped_articles, summary>>
    /\ UNCHANGED packVars

(***************************************************************************)
(* fetch_articles: one efetch call for pmid_list[i:i + batch_size]         *)
(***************************************************************************)
EfetchRaises ==
    /\ pc = "fetch"
    /\ i < pmid_count
    /\ requests' = requests + 1
    /\ errors' = errors + 1
    /\ i' = NextChunkAfterError(i, pmid_count)
    /\ UNCHANGED <<token_limit, pc, exit_log, pmid_count, recs_left, warnings, articles,
                   skipped_articles, summary>>
    /\ UNCHANGED packVars

EfetchReturns ==
    /\ pc = "fetch"
    /\ i < pmid_count
    /\ requests' = requests + 1
    /\ \E k \in 0 .. Min(Min(batch_size, pmid_count - i),
                         MaxArticles - (Len(articles) + skipped_articles)) :
        recs_left' = k
    /\ pc' = "records"
    /\ UNCHANGED <<token_limit, exit_log, pmid_count, i, errors, warnings, articles,
                   skipped_articles, summary>>
    /\ UNCHANGED packVars

\* for article_record in records['PubmedArticle']: one iteration
ProcessRecord ==
    /\ pc = "records"
    /\ recs_left > 0
    /\ recs_left' = recs_left - 1
    /\ \E r \in FetchedRecords :
        IF r.missing # ""
        THEN \* except KeyError
             /\ warnings' = warnings + 1
             /\ skipped_articles' = skipped_articles + 1
             /\ articles' = articles
        ELSE IF HasAbstract(r.Abstract)
        THEN /\ articles' = Append(articles,
                    [pmid |-> Len(articles) + skipped_articles + 1,
                     title |-> r.title,
                     abstract |-> ExtractAbstract(r.Abstract),
                     enc |-> r.enc,
                     word_count |-> 0,
                     token_count |-> 0])
             /\ UNCHANGED <<warnings, skipped_articles>>
        ELSE \* "WARNING: No abstract for PMID ... - skipping"
             /\ warnings' = warnings + 1
             /\ skipped_articles' = skipped_articles + 1
             /\ articles' = articles
    /\ UNCHANGED <<token_limit, pc, exit_log, pmid_count, i, requests, errors, summary>>
    /\ UNCHANGED packVars

\* the progress update and the sleep that end a chunk
ChunkDone ==
    /\ pc = "records"
    /\ recs_left = 0
    /\ i' = i + batch_size
    /\ pc' = "fetch"
    /\ UNCHANGED <<token_limit, exit_log, pmid_count, recs_left, requests, errors, warnings,
                   articles, skipped_articles, summary>>
    /\ UNCHANGED packVars

\* fetch_articles returns; run() step 2's empty-result exit
FetchReturn ==
    /\ pc = "fetch"
    /\ i >= pmid_count
    /\ pc' = AfterFetch(articles)
    /\ exit_log' = IF AfterFetch(articles) = "done" THEN "No articles fetched. Exiting." ELSE ""
    /\ batch_number' = IF AfterFetch(articles) = "pack" THEN 1 ELSE batch_number
    /\ UNCHANGED <<token_limit, articles, summary>>
    /\ UNCHANGED fetchVars
    /\ UNCHANGED <<total_articles, total_words, total_tokens, batches, idx, current_batch,
                   current_batch_tokens, saved>>

(***************************************************************************)
(* process_and_batch_articles: one iteration of the loop over articles     *)
(***************************************************************************)
PackArticle ==
    /\ pc = "pack"
    /\ idx < Len(articles)
    /\ LET article == articles[idx + 1]
           combined_text == CombinedText(article)
           word_count == count_words(combined_text)
           token_count == count_tokens(combined_text)
           costed == [article EXCEPT !.word_count = word_count, !.token_count = token_count]
       IN  /\ idx' = idx + 1
           /\ articles' = [articles EXCEPT ![idx + 1] = costed]
           /\ total_words' = AddTotal(total_words, word_count)
           /\ total_tokens' = AddTotal(total_tokens, token_count)
           /\ IF Overflows(current_batch_tokens, token_count, token_limit, current_batch)
              THEN /\ saved' = Append(saved,
                          BatchFile(current_batch, batch_number, current_batch_tokens))
                   /\ batches' = Append(batches,
                          BatchEntry(batch_number, current_batch, current_batch_tokens))
                   /\ current_batch' = StartBatch(costed)
                   /\ current_batch_tokens' = StartBatchTokens(token_count)
                   /\ batch_number' = NextBatchNumber(batch_number)
              ELSE /\ current_batch' = Append(current_batch, costed)
                   /\ current_batch_tokens' = current_batch_tokens + token_count
                   /\ UNCHANGED <<saved, batches, batch_number>>
    /\ UNCHANGED <<token_limit, pc, exit_log, total_articles, summary>>
    /\ UNCHANGED fetchVars

\* after the loop: save the final batch, set total_articles
PackFinish ==
    /\ pc = "pack"
    /\ idx = Len(articles)
    /\ IF current_batch # <<>>
       THEN /\ saved' = Append(saved,
                   BatchFile(current_batch, batch_number, current_batch_tokens))
            /\ batches' = Append(batches,
                   BatchEntry(batch_number, current_batch, current_batch_tokens))
       ELSE UNCHANGED <<saved, batches>>
    /\ total_articles' = Len(articles)
    /\ pc' = "summary"
    /\ UNCHANGED <<token_limit, exit_log, articles, total_words, total_tokens, idx,
                   current_batch, current_batch_tokens, batch_number, summary>>
    /\ UNCHANGED fetchVars

(***************************************************************************)
(* save_summary and print_summary                                          *)
(***************************************************************************)
\* the lines save_summary writes; `averages` is empty when the guard skips them
SummaryText ==
    [total_articles |-> total_articles,
     skipped |-> skipped_articles,
     n_batches |-> Len(batches),
     total_words |-> total_words,
     total_tokens |-> total_tokens,
     averages |-> IF AverageGuard(total_articles)
                  THEN <<total_words \div total_articles, total_tokens \div total_articles>>
                  ELSE <<>>,
     distribution |-> batches,
     files |-> [k \in 1 .. Len(batches) |-> k]]

SaveSummary ==
    /\ pc = "summary"
    /\ IF AverageGuard(total_articles) /\ total_articles = 0
       THEN \* ZeroDivisionError leaves run()
            /\ pc' = "crashed"
            /\ summary' = summary
       ELSE /\ summary' = Append(summary, SummaryText)
            /\ pc' = "print"
    /\ UNCHANGED <<token_limit, exit_log, articles>>
    /\ UNCHANGED fetchVars
    /\ UNCHANGED packVars

PrintSummary ==
    /\ pc = "print"
    /\ pc' = IF AverageGuard(total_articles) /\ total_articles = 0 THEN "crashed" ELSE "done"
    /\ UNCHANGED <<token_limit, exit_log, articles, summary>>
    /\ UNCHANGED fetchVars
    /\ UNCHANGED packVars

Next ==
    \/ SearchPubmed
    \/ EfetchRaises
    \/ EfetchReturns
    \/ ProcessRecord
    \/ ChunkDone
    \/ FetchReturn
    \/ PackArticle
    \/ PackFinish
    \/ SaveSummary
    \/ PrintSummary

Spec == Init /\ [][Next]_vars

(***************************************************************************)
(* Properties                                                              *)
(***************************************************************************)

RECURSIVE SumTokens(_)
SumTokens(recs) ==
    IF recs = <<>> THEN 0 ELSE Head(recs).token_count + SumTokens(Tail(recs))

RECURSIVE SumWords(_)
SumWords(recs) ==
    IF recs = <<>> THEN 0 ELSE Head(recs).word_count + SumWords(Tail(recs))

RECURSIVE SumBatchTokens(_)
SumBatchTokens(bs) ==
    IF bs = <<>> THEN 0 ELSE Head(bs).token_count + SumBatchTokens(Tail(bs))

RECURSIVE SumBatchArticles(_)
SumBatchArticles(bs) ==
    IF bs = <<>> THEN 0 ELSE Head(bs).article_count + SumBatchArticles(Tail(bs))

\* the records of the written batch files, one after the other
RECURSIVE ConcatRecords(_)
ConcatRecords(files) ==
    IF files = <<>> THEN <<>> ELSE Head(files).records \o ConcatRecords(Tail(files))

\* run() is past process_and_batch_articles, or never called it
PackingOver == pc \in {"summary", "print", "done"}

\* process_and_batch_articles has returned
Packed == pc \in {"summary", "print"} \/ (pc = "done" /\ exit_log = "")

\* the reference packer: greedy, single pass, in input order
RECURSIVE GreedyPack(_, _, _, _, _)
GreedyPack(recs, capacity, closed, open, cost) ==
    IF recs = <<>>
    THEN IF open # <<>> THEN Append(closed, open) ELSE closed
    ELSE LET r == Head(recs)
         IN  IF open # <<>> /\ cost + r.token_count > capacity
             THEN GreedyPack(Tail(recs), capacity, Append(closed, open), <<r>>, r.token_count)
             ELSE GreedyPack(Tail(recs), capacity, closed, Append(open, r),
                             cost + r.token_count)

\* C1: every emitted batch records a total_cost equal to the sum of the token
\* counts of its records, and that total is within the capacity unless the
\* batch is a single record whose own cost exceeds the capacity.
C1_BatchCostWithinCapacity ==
    /\ Len(batches) = Len(saved)
    /\ \A k \in 1 .. Len(saved) :
        /\ saved[k].token_count = SumTokens(saved[k].records)
        /\ batches[k].token_count = SumTokens(saved[k].records)
        /\ batches[k].article_count = Len(saved[k].records)
        /\ saved[k].token_count <= token_limit \/ Len(saved[k].records) = 1
        /\ saved[k].token_count > token_limit
              => saved[k].records[1].token_count > token_limit

\* a run that emitted a batch of several records filled exactly to capacity
\* and an oversized singleton
C1_Witness ==
    /\ pc = "done"
    /\ \E k \in 1 .. Len(saved) :
         Len(saved[k].records) >= 2 /\ saved[k].token_count = token_limit
    /\ \E k \in 1 .. Len(saved) :
         Len(saved[k].records) = 1 /\ saved[k].token_count > token_limit

\* C2: the emitted batches, concatenated in batch order, are the admitted
\* records in their input order: during packing the closed batches and the
\* open batch make up the records visited so far, and at the end the closed
\* batches make up the whole input; no batch is empty.
C2_BatchesPartitionInput ==
    /\ pc = "pack" => ConcatRecords(saved) \o current_batch = SubSeq(articles, 1, idx)
    /\ PackingOver => ConcatRecords(saved) = articles
    /\ \A k \in 1 .. Len(saved) : saved[k].records # <<>>
    /\ \A j, k \in 1 .. Len(articles) : articles[j].pmid = articles[k].pmid => j = k

\* a finished run with an oversized singleton followed by a final batch that is
\* only partially filled
C2_Witness ==
    /\ pc = "done"
    /\ Len(saved) >= 2
    /\ saved[Len(saved)].token_count < token_limit
    /\ \E k \in 1 .. Len(saved) : saved[k].token_count > token_limit
    /\ Len(articles) = MaxArticles

\* C3: at the end of a run the total token and word counts are the sums of
\* the per-record counts over all admitted records, total_articles is the
\* number of records packed, and the per-batch entries add up to the same
\* totals wherever the batch boundaries fall.
C3_TotalsAreSums ==
    PackingOver =>
        /\ total_tokens = SumTokens(articles)
        /\ total_words = SumWords(articles)
        /\ total_articles = Len(articles)
        /\ SumBatchTokens(batches) = total_tokens
        /\ SumBatchArticles(batches) = total_articles
        /\ \A k \in 1 .. Len(articles) :
             /\ articles[k].token_count = articles[k].enc
             /\ articles[k].word_count = Len(articles[k].title) + Len(articles[k].abstract)

\* a finished run of several batches over records of different costs
C3_Witness ==
    /\ pc = "done"
    /\ Len(batches) >= 2
    /\ total_articles = MaxArticles
    /\ total_tokens > total_articles
    /\ total_words > total_articles

\* C4 (as claimed): every record fetch_articles admits carries non-empty
\* body text, and the skip counter counts every fetched record that does not.
C4_OnlyBodyTextAdmitted ==
    \A k \in 1 .. Len(articles) : articles[k].abstract # <<>>

\* C5 (as claimed): every per-record and every per-chunk failure that is
\* logged is converted into a skip-counter increment.
C5_EveryFailureCounted == skipped_articles >= warnings + errors

\* fetch_articles has left its loop over the chunks
FetchLoopOver ==
    \/ pc = "fetch" /\ i >= pmid_count
    \/ pc \in {"pack", "summary", "print"}
    \/ pc = "done" /\ pmid_count > 0

\* range(0, len(pmid_list), batch_size) has this many elements
ChunkCount(n) == (n + batch_size - 1) \div batch_size

\* C5 (amended): a record that lacks a required key is logged and counted as
\* one skip; an efetch call that raises is logged and leaves the skip counter
\* unchanged; neither aborts the run: every chunk is still requested, and the
\* records retrieved from the other chunks are returned and packed.
C5_FailuresNeverAbort ==
    /\ pc # "crashed"
    /\ skipped_articles = warnings
    /\ errors <= requests
    /\ FetchLoopOver => requests = ChunkCount(pmid_count)
    /\ Packed => ConcatRecords(saved) = articles /\ articles # <<>>

\* a finished run in which an efetch call raised, a record was skipped, and
\* the records of another chunk were still packed
C5_Witness ==
    /\ pc = "done"
    /\ errors = 1
    /\ requests = 2
    /\ warnings >= 1
    /\ saved # <<>>

\* C6: a run whose search returns no identifier, or whose fetch admits no
\* record, logs the reason and ends having written no batch and no summary;
\* every other run packs all admitted records, writes every batch and only
\* then writes the summary, exactly once.
C6_ExitAndSummaryOrder ==
    /\ Len(summary) <= 1
    /\ pc \in {"search", "fetch", "records", "pack", "summary"} => summary = <<>>
    /\ pc \in {"print", "done"} /\ articles # <<>> =>
         /\ Len(summary) = 1
         /\ ConcatRecords(saved) = articles
         /\ summary[1].n_batches = Len(saved)
         /\ exit_log = ""
    /\ pc = "done" /\ pmid_count = 0 =>
         /\ exit_log = "No results found. Exiting."
         /\ saved = <<>> /\ summary = <<>> /\ requests = 0
    /\ pc = "done" /\ pmid_count > 0 /\ articles = <<>> =>
         /\ exit_log = "No articles fetched. Exiting."
         /\ saved = <<>> /\ summary = <<>>
    /\ pc # "crashed"

\* a finished run that wrote several batches and then its summary
C6_Witness ==
    /\ pc = "done"
    /\ Len(saved) >= 2
    /\ Len(summary) = 1
    /\ exit_log = ""

\* C7 (as claimed): a run whose fetch admits no record produces zero batches
\* and a summary that shows 0 articles with its averages not computed.
C7_EmptyRunShowsSummary ==
    pc = "done" /\ pmid_count > 0 /\ articles = <<>> =>
        /\ saved = <<>>
        /\ Len(summary) = 1
        /\ summary[1].total_articles = 0
        /\ summary[1].averages = <<>>

\* C7 (amended): a run whose admitted-record list is empty produces zero
\* batches and ends before save_summary, so no summary is written at all and
\* no division by zero is raised; a summary is only ever written for at least
\* one article, with its averages total // total_articles.
C7_EmptyRunNoSummary ==
    /\ pc # "crashed"
    /\ pc = "done" /\ articles = <<>> =>
         /\ saved = <<>> /\ batches = <<>> /\ summary = <<>>
         /\ total_articles = 0 /\ total_words = 0 /\ total_tokens = 0
    /\ \A k \in 1 .. Len(summary) :
         /\ summary[k].total_articles > 0
         /\ summary[k].averages =
              << summary[k].total_words \div summary[k].total_articles,
                 summary[k].total_tokens \div summary[k].total_articles >>

\* a run that fetched records, skipped them all and ended
C7_Witness ==
    /\ pc = "done"
    /\ articles = <<>>
    /\ skipped_articles >= 2

\* C8: the batches are numbered 1, 2, ..., n in the order they are closed, so
\* each pubmed_batch_k.txt is written exactly once, and the file names
\* save_summary lists are exactly the files written.
C8_ConsecutiveNumbering ==
    /\ Len(batches) = Len(saved)
    /\ \A k \in 1 .. Len(saved) :
         saved[k].batch_number = k /\ batches[k].batch_number = k
    /\ \A k \in 1 .. Len(summary) :
         summary[k].files = [j \in 1 .. Len(saved) |-> saved[j].batch_number]

\* a finished run whose summary lists three batch files
C8_Witness ==
    /\ pc = "done"
    /\ Len(summary) = 1
    /\ Len(saved) = MaxArticles
    /\ Len(summary[1].files) = MaxArticles

\* C9 (as claimed): a run configured with a zero or negative token_limit is
\* rejected at startup: it requests no chunk, admits no record and writes no
\* batch.
C9_NonPositiveLimitRejected ==
    token_limit <= 0 => requests = 0 /\ articles = <<>> /\ saved = <<>>

\* C10: a batch boundary is placed before a record exactly when the open
\* batch is non-empty and its cost plus the record's exceeds the capacity (an
\* exact fit is admitted): the emitted batches are those of the reference
\* greedy packer, and each closed batch's cost plus the cost of the first
\* record of the next batch exceeds the capacity.
C10_GreedyBoundaries ==
    /\ \A k \in 1 .. Len(saved) - 1 :
         saved[k].token_count + saved[k + 1].records[1].token_count > token_limit
    /\ pc = "pack" /\ saved # <<>> /\ current_batch # <<>> =>
         saved[Len(saved)].token_count + current_batch[1].token_count > token_limit
    /\ pc = "pack" =>
         GreedyPack(SubSeq(articles, 1, idx), token_limit, <<>>, <<>>, 0)
           = IF current_batch # <<>>
             THEN [k \in 1 .. Len(saved) + 1 |->
                     IF k <= Len(saved) THEN saved[k].records ELSE current_batch]
             ELSE [k \in 1 .. Len(saved) |-> saved[k].records]
    /\ PackingOver =>
         GreedyPack(articles, token_limit, <<>>, <<>>, 0)
           = [k \in 1 .. Len(saved) |-> saved[k].records]

\* a finished run with a batch of several records filled exactly to capacity,
\* followed by another batch
C10_Witness ==
    /\ pc = "done"
    /\ Len(saved) >= 2
    /\ Len(saved[1].records) >= 2
    /\ saved[1].token_count = token_limit

====
